---- MODULE Spec2Model ----
(***************************************************************************)
(* FS25 Mod Monitor (fs25_mod_monitor.py): one poll of a remote mods       *)
(* directory, the diff against the snapshot file, the Discord notification *)
(* and the snapshot rewrite.                                               *)
(*                                                                         *)
(* A Python dict is a sequence of <<key, value>> pairs with distinct keys, *)
(* in insertion order.  A mod record is a TLA+ record with the fields      *)
(* title, version, author, filesize.                                       *)
(***************************************************************************)
EXTENDS Integers, Sequences, FiniteSets, TLC

VARIABLES
    pc,             \* position of the running function
    run,            \* number of the current invocation of main()
    remote,         \* the server: the directory listing and the archives
    conn_type,      \* main: conn_type ("sftp", "ftp", or None)
    scan,           \* what happened to this run's listing and fetches
    state_file,     \* STATE_FILE on disk
    file_at_start,  \* STATE_FILE as it was when this run started
    current_mods,   \* main: current_mods
    previous_mods,  \* main: previous_mods
    changes,        \* main: changes
    posted,         \* the requests.post calls of this run, with their outcome
    log,            \* the calls of this run that touch STATE_FILE, the diff or the webhook
    last,           \* how the previous run ended and what it had computed
    parsed          \* what test_mod_parser.py's parse_mod returned

vars == <<pc, run, remote, conn_type, scan, state_file, file_at_start,
          current_mods, previous_mods, changes, posted, log, last, parsed>>

\* -------------------------------------------------------------- bounds

\* Largest number of entries of an inventory given to detect_changes.
MaxMods == 2

\* Largest number of entries of the remote directory listing.
MaxListing == 2

\* Number of invocations of main() that are followed.
MaxRuns == 2

\* ------------------------------------------------------- Python values

\* Python's None, as the value of a field that is otherwise a string.
None == "<None>"

\* ---------------------------------------------------------------- dicts

\* dict.keys()
keys(d) == {d[i][1] : i \in DOMAIN d}

\* key in d
has(d, k) == k \in keys(d)

\* d[k], for a key of d
get(d, k) == d[CHOOSE i \in DOMAIN d : d[i][1] = k][2]

\* Sequences of at most n pairs over K \X V with distinct keys.
DictsOver(K, V, n) ==
    UNION {{d \in [1..k -> K \X V] :
              \A i, j \in 1..k : i # j => d[i][1] # d[j][1]} : k \in 0..n}

\* ------------------------------------------------------- detect_changes

\* A bug: the entry of a new file is labelled as an update.
AddedChange_as_updated(filename, info) ==
    [type |-> "updated", filename |-> filename, info |-> info]

\* The entry appended for a file that is in current_mods only.
AddedChange(filename, info) ==
    [type |-> "added", filename |-> filename, info |-> info]

\* A bug: old_version is taken from the new record.
UpdatedChange_new_version(filename, info, old_version) ==
    [type |-> "updated", filename |-> filename, info |-> info,
     old_version |-> info.version]

\* The entry appended for a file whose version or filesize changed.
UpdatedChange(filename, info, old_version) ==
    [type |-> "updated", filename |-> filename, info |-> info,
     old_version |-> old_version]

\* The entry appended for a file that is in previous_mods only.
RemovedChange(filename, info) ==
    [type |-> "removed", filename |-> filename, info |-> info]

\* A bug: only the version is compared.
is_updated_version_only(info, prev) ==
    info.version # prev.version

\* The elif condition of the first loop of detect_changes.
is_updated(info, prev) ==
    \/ info.version # prev.version
    \/ info.filesize # prev.filesize

RECURSIVE detect_additions_skip_last(_, _, _)
\* A bug: the loop stops one item early.
detect_additions_skip_last(prev, cur, i) ==
    IF i >= Len(cur) THEN <<>>
    ELSE LET filename == cur[i][1]
             info     == cur[i][2]
             rest     == detect_additions_skip_last(prev, cur, i + 1)
         IN  IF ~has(prev, filename)
             THEN <<AddedChange(filename, info)>> \o rest
             ELSE IF is_updated(info, get(prev, filename))
             THEN <<UpdatedChange(filename, info,
                                  get(prev, filename).version)>> \o rest
             ELSE rest

RECURSIVE detect_additions(_, _, _)
\* The first loop of detect_changes, from item i of current_mods on.
detect_additions(prev, cur, i) ==
    IF i > Len(cur) THEN <<>>
    ELSE LET filename == cur[i][1]
             info     == cur[i][2]
             rest     == detect_additions(prev, cur, i + 1)
         IN  IF ~has(prev, filename)
             THEN <<AddedChange(filename, info)>> \o rest
             ELSE IF is_updated(info, get(prev, filename))
             THEN <<UpdatedChange(filename, info,
                                  get(prev, filename).version)>> \o rest
             ELSE rest

RECURSIVE detect_removals_unfiltered(_, _, _)
\* A bug: every previous file is reported as removed.
detect_removals_unfiltered(prev, cur, i) ==
    IF i > Len(prev) THEN <<>>
    ELSE <<RemovedChange(prev[i][1], prev[i][2])>>
         \o detect_removals_unfiltered(prev, cur, i + 1)

RECURSIVE detect_removals(_, _, _)
\* The second loop of detect_changes, from item i of previous_mods on.
detect_removals(prev, cur, i) ==
    IF i > Len(prev) THEN <<>>
    ELSE LET filename == prev[i][1]
             rest     == detect_removals(prev, cur, i + 1)
         IN  IF ~has(cur, filename)
             THEN <<RemovedChange(filename, prev[i][2])>> \o rest
             ELSE rest

\* A bug: the removals are reported first.
detect_changes_removals_first(prev, cur) ==
    detect_removals(prev, cur, 1) \o detect_additions(prev, cur, 1)

\* detect_changes(previous_mods, current_mods)
detect_changes(prev, cur) ==
    detect_additions(prev, cur, 1) \o detect_removals(prev, cur, 1)

\* ------------------------------------------------------------- strings

\* The file names a directory listing of the model is made of.
FileNames == {"ModA.zip", "ModB.ZIP", "notes.txt"}

\* str.lower() on the file names of the model.
lower(s) ==
    CASE s = "ModA.zip" -> "moda.zip"
      [] s = "ModB.ZIP" -> "modb.zip"
      [] s = "ModC.zip" -> "modc.zip"
      [] s = "My Mod.zip" -> "my mod.zip"
      [] s = "Mod.zip" -> "mod.zip"
      [] OTHER -> s

\* s.endswith('.zip') on the lowered file names of the model.
endswith_zip(s) ==
    s \in {"moda.zip", "modb.zip", "modc.zip", "my mod.zip", "mod.zip"}

\* Path(remote_file_path).stem on the file names of the model.
stem(s) ==
    CASE s = "ModA.zip" -> "ModA"
      [] s = "ModB.ZIP" -> "ModB"
      [] s = "ModC.zip" -> "ModC"
      [] s = "notes.txt" -> "notes"
      [] s = "My Mod.zip" -> "My Mod"
      [] s = "Mod.zip" -> "Mod"
      [] OTHER -> s

\* file_line.split()[-1] on the LIST line of a file: the last word of its
\* name.
last_word(s) == IF s = "My Mod.zip" THEN "Mod.zip" ELSE s

\* ----------------------------------------------------- extract_mod_info

\* find() found no such element, or the root has no such attribute.
Absent == "<absent>"

\* The bytes of a remote file, as far as extract_mod_info looks at them:
\* whether zipfile can open them, and the descriptors (the entries whose
\* lowered name ends in moddesc.xml) in namelist() order.  A descriptor is
\* parseable or not, and holds the text of title/en, title, author and
\* version (Absent: no such element; None: an element without text) and the
\* descVersion attribute of the root.
NotAZip == [is_zip |-> FALSE, descs |-> <<>>, size |-> 300]

NoDescriptor == [is_zip |-> TRUE, descs |-> <<>>, size |-> 400]

BadXml ==
    [is_zip |-> TRUE, size |-> 500,
     descs |-> <<[parseable |-> FALSE, title_en |-> Absent, title |-> Absent,
                  descVersion |-> Absent, author |-> Absent,
                  version |-> Absent]>>]

Desc(title_en, title, descVersion, author, version) ==
    [parseable |-> TRUE, title_en |-> title_en, title |-> title,
     descVersion |-> descVersion, author |-> author, version |-> version]

ModV1 ==
    [is_zip |-> TRUE, size |-> 1000,
     descs |-> <<Desc("A", None, "1.0", "X", "1.0.0.0")>>]

\* The same mod re-uploaded with other bytes under the same descVersion.
ModV1Reupload ==
    [is_zip |-> TRUE, size |-> 1200,
     descs |-> <<Desc("A", None, "1.0", "X", "1.0.0.1")>>]

ModV2 ==
    [is_zip |-> TRUE, size |-> 1200,
     descs |-> <<Desc(Absent, "B", "1.1", None, "2.0.0.0")>>]

\* A descriptor without title, descVersion and author.
ModBare ==
    [is_zip |-> TRUE, size |-> 1000,
     descs |-> <<Desc(Absent, Absent, Absent, Absent, Absent)>>]

ArchivePool == {NotAZip, NoDescriptor, BadXml, ModV1, ModV1Reupload, ModV2, ModBare}

\* A bug: the fallback title keeps the extension.
FallbackInfo_keeps_name(remote_file_path, file_size) ==
    [title |-> remote_file_path, version |-> "Unknown",
     author |-> "Unknown", filesize |-> file_size]

\* The record returned when the archive gives nothing.
FallbackInfo(remote_file_path, file_size) ==
    [title |-> stem(remote_file_path), version |-> "Unknown",
     author |-> "Unknown", filesize |-> file_size]

\* extract_mod_info(client, conn_type, remote_file_path, file_size), where
\* fetched says whether reading the remote file succeeded.
extract_mod_info(fetched, archive, remote_file_path, file_size) ==
    IF ~fetched \/ ~archive.is_zip
    THEN FallbackInfo(remote_file_path, file_size)          \* except Exception
    ELSE IF archive.descs = <<>>
    THEN FallbackInfo(remote_file_path, file_size)          \* not mod_desc_name
    ELSE LET root == archive.descs[1]
         IN  IF ~root.parseable
             THEN FallbackInfo(remote_file_path, file_size) \* except Exception
             ELSE LET title == IF root.title_en # Absent THEN root.title_en
                               ELSE IF root.title # Absent THEN root.title
                               ELSE stem(remote_file_path)
                      version == IF root.descVersion # Absent
                                 THEN root.descVersion ELSE "Unknown"
                      author == IF root.author # Absent THEN root.author
                                ELSE "Unknown"
                  IN  [title |-> title, version |-> version,
                       author |-> author, filesize |-> file_size]

\* ----------------------------------------------------- get_current_mods

\* One entry of the remote directory: its name, whether it is a directory,
\* its link count (the second column of an FTP LIST line) and its bytes;
\* st_size is the length of the bytes.
Entry(filename, archive) ==
    [filename |-> filename, is_dir |-> FALSE, nlink |-> 1, archive |-> archive]

ListingEntries == {Entry(f, a) : f \in FileNames, a \in ArchivePool}

\* The directory listings of the model: file names are unique in a listing.
Listings ==
    UNION {{l \in [1..k -> ListingEntries] :
              \A i, j \in 1..k : i # j => l[i].filename # l[j].filename}
           : k \in 0..MaxListing}

\* The size get_current_mods hands to extract_mod_info: st_size over SFTP;
\* over FTP the first all-digit column among parts[1:8] of the LIST line,
\* which is the link count.
listed_size(ctype, entry) ==
    IF ctype = "sftp" THEN entry.archive.size ELSE entry.nlink

\* d[k] = v on a dict: a new key is appended, an old one keeps its place.
setitem(d, k, v) ==
    IF has(d, k)
    THEN [i \in DOMAIN d |-> IF d[i][1] = k THEN <<k, v>> ELSE d[i]]
    ELSE Append(d, <<k, v>>)

\* The name get_current_mods gives a listed file: file_attr.filename over
\* SFTP, parts[-1] of the LIST line over FTP.
listed_name(ctype, entry) ==
    IF ctype = "sftp" THEN entry.filename ELSE last_word(entry.filename)

\* The entries of the listing whose name is filename: what a fetch of that
\* path finds.
entries_named(listing, filename) ==
    {j \in DOMAIN listing : listing[j].filename = filename}

RECURSIVE scan_entries(_, _, _, _, _)
\* The for loop of get_current_mods from entry i on; failing holds the file
\* names whose fetch fails.
scan_entries(ctype, listing, failing, i, mods) ==
    IF i > Len(listing) THEN mods
    ELSE LET e == listing[i]
             filename == listed_name(ctype, e)
             found == entries_named(listing, filename)
             fetched == found # {} /\ filename \notin failing
             archive == IF found = {} THEN NotAZip
                        ELSE listing[CHOOSE j \in found : TRUE].archive
         IN  IF (ctype = "ftp" /\ e.is_dir) \/ ~endswith_zip(lower(filename))
             THEN scan_entries(ctype, listing, failing, i + 1, mods)
             ELSE scan_entries(ctype, listing, failing, i + 1,
                    setitem(mods, filename,
                            extract_mod_info(fetched, archive, filename,
                                             listed_size(ctype, e))))

\* get_current_mods(client, conn_type); listed says whether the directory
\* could be listed.
get_current_mods(ctype, listed, listing, failing) ==
    IF ~listed THEN <<>>                                   \* except: return {}
    ELSE scan_entries(ctype, listing, failing, 1, <<>>)

\* ------------------------------------------------------- the state file

JString(s) == [t |-> "string", s |-> s, n |-> 0]

JNumber(n) == [t |-> "number", s |-> "", n |-> n]

JNull == [t |-> "null", s |-> "", n |-> 0]

\* A bug: None is written as the text "None".
json_dump_str_as_text(v) == JString(IF v = None THEN "None" ELSE v)

\* json.dump of a value that is a str or None.
json_dump_str(v) == IF v = None THEN JNull ELSE JString(v)

\* json.dump of one mod record: the members of a JSON object, in the order
\* of the dict literal that built the record.
json_dump_info(info) ==
    << <<"title", json_dump_str(info.title)>>,
       <<"version", json_dump_str(info.version)>>,
       <<"author", json_dump_str(info.author)>>,
       <<"filesize", JNumber(info.filesize)>> >>

\* json.dump(mods, f): the members of the top-level JSON object.
json_dump(mods) ==
    [i \in DOMAIN mods |-> <<mods[i][1], json_dump_info(mods[i][2])>>]

\* The text of a file: a JSON document (an object of objects), nothing at
\* all, or text that json.load rejects.
JsonText(members) == [kind |-> "json", members |-> members]

EmptyText == [kind |-> "empty", members |-> <<>>]

GarbageText == [kind |-> "garbage", members |-> <<>>]

NoFile == [exists |-> FALSE, text |-> EmptyText]

File(text) == [exists |-> TRUE, text |-> text]

\* json.load of a scalar.
json_load_value(j) ==
    CASE j.t = "string" -> j.s
      [] j.t = "number" -> j.n
      [] OTHER -> None

\* json.load of a JSON object of scalars: a dict keyed by the member names,
\* the last member of a name giving its value.
json_load_info(members) ==
    [k \in {members[i][1] : i \in DOMAIN members} |->
        json_load_value(
            members[CHOOSE i \in DOMAIN members :
                      /\ members[i][1] = k
                      /\ \A j \in DOMAIN members : members[j][1] = k => j <= i][2])]

RECURSIVE json_load_from(_, _, _)
json_load_from(members, i, mods) ==
    IF i > Len(members) THEN mods
    ELSE json_load_from(members, i + 1,
                        setitem(mods, members[i][1], json_load_info(members[i][2])))

\* json.load(f) of a JSON document.
json_load(text) == json_load_from(text.members, 1, <<>>)

\* load_previous_state()
load_previous_state(file) ==
    IF file.exists
    THEN IF file.text.kind = "json"
         THEN json_load(file.text)
         ELSE <<>>                                          \* except: return {}
    ELSE <<>>

\* The file after open(STATE_FILE, 'w').
opened_for_write(file) == File(EmptyText)

\* The file after json.dump(mods, f) and the close of the with block.
save_current_state(mods) == File(JsonText(json_dump(mods)))

\* ------------------------------------------- detect_changes on its own

\* The records the inventories given to detect_changes are made of: one
\* record and its variants in one field each.
DiffRecords ==
    {[title |-> "A", version |-> "1.0", author |-> "X", filesize |-> 1000],
     [title |-> "B", version |-> "1.0", author |-> "X", filesize |-> 1000],
     [title |-> "A", version |-> "1.0", author |-> "Y", filesize |-> 1000],
     [title |-> "A", version |-> "1.1", author |-> "X", filesize |-> 1000],
     [title |-> "A", version |-> "1.0", author |-> "X", filesize |-> 1200]}

DiffNames == {"ModA.zip", "ModB.ZIP", "ModC.zip"}

DiffInventories == DictsOver(DiffNames, DiffRecords, MaxMods)

\* There was no run before this one.
NoLast ==
    [how |-> "none", log |-> <<>>, conn_type |-> None,
     scan |-> [listed |-> FALSE, failing |-> {}],
     file |-> NoFile,
     before |-> <<>>, saving |-> <<>>, changes |-> <<>>]

\* parse_mod was not called.
NotParsed ==
    [error |-> "not called", title |-> None, version |-> None, author |-> None]

\* The values of the variables a specification does not use.
Idle ==
    /\ run = 0
    /\ remote = <<>>
    /\ conn_type = None
    /\ scan = [listed |-> FALSE, failing |-> {}]
    /\ file_at_start = NoFile
    /\ posted = <<>>
    /\ log = <<>>
    /\ last = NoLast
    /\ parsed = NotParsed

InitDiff ==
    /\ Idle
    /\ pc = "detect_changes"
    /\ state_file = NoFile
    /\ previous_mods \in DiffInventories
    /\ current_mods \in DiffInventories
    /\ changes = <<>>

\* changes = detect_changes(previous_mods, current_mods)
DiffCall ==
    /\ pc = "detect_changes"
    /\ changes' = detect_changes(previous_mods, current_mods)
    /\ pc' = "detected"
    /\ UNCHANGED <<run, remote, conn_type, scan, state_file, file_at_start,
                   current_mods, previous_mods, posted>>
    /\ UNCHANGED <<log, last, parsed>>

NextDiff == DiffCall

SpecDiff == InitDiff /\ [][NextDiff]_vars

\* The changes of one type, and the changes about one file.
OfType(cs, type) == {i \in DOMAIN cs : cs[i].type = type}

About(cs, filename) == {i \in DOMAIN cs : cs[i].filename = filename}

\* i such that d[i] has key k
index(d, k) == CHOOSE i \in DOMAIN d : d[i][1] = k

\* C1: for a name in both inventories, detect_changes emits an 'updated'
\* change for it if and only if the versions differ or the filesizes differ;
\* with version and filesize equal it emits no change for the name at all,
\* whatever the title and the author.
C1_UpdatedIffVersionOrSize ==
    pc = "detected" =>
        \A name \in keys(previous_mods) \cap keys(current_mods) :
            LET old == get(previous_mods, name)
                new == get(current_mods, name)
                differs == old.version # new.version \/ old.filesize # new.filesize
            IN  /\ differs <=> (About(changes, name) \cap OfType(changes, "updated") # {})
                /\ ~differs => About(changes, name) = {}

\* C1's case: a file with the same version and another filesize is reported
\* as updated, next to a file that differs in title or author only.
C1_Witness ==
    /\ pc = "detected"
    /\ \E name \in keys(previous_mods) \cap keys(current_mods) :
          /\ get(previous_mods, name).version = get(current_mods, name).version
          /\ get(previous_mods, name).filesize # get(current_mods, name).filesize
          /\ About(changes, name) \cap OfType(changes, "updated") # {}
    /\ \E name \in keys(previous_mods) \cap keys(current_mods) :
          /\ get(previous_mods, name) # get(current_mods, name)
          /\ About(changes, name) = {}

\* C2: detect_changes(I, I) is the empty list.
C2_SelfDiffEmpty ==
    (pc = "detected" /\ previous_mods = current_mods) => changes = <<>>

\* C2's case: a non-empty inventory was compared with itself.
C2_Witness ==
    /\ pc = "detected"
    /\ previous_mods = current_mods
    /\ Len(current_mods) >= 2

\* C3: with disjoint key sets, detect_changes(A, B) holds exactly |B| added,
\* exactly |A| removed and no updated changes.
C3_DisjointCounts ==
    (pc = "detected" /\ keys(previous_mods) \cap keys(current_mods) = {}) =>
        /\ Cardinality(OfType(changes, "added")) = Len(current_mods)
        /\ Cardinality(OfType(changes, "removed")) = Len(previous_mods)
        /\ OfType(changes, "updated") = {}

\* C3's cases: disjoint non-empty inventories, and an empty previous one.
C3_Witness ==
    /\ pc = "detected"
    /\ keys(previous_mods) \cap keys(current_mods) = {}
    /\ Len(previous_mods) >= 1
    /\ Len(current_mods) >= 2
    /\ Len(changes) = Len(previous_mods) + Len(current_mods)

\* C4: at most one change per file name; every change is added, removed or
\* updated; added only for names in current alone, removed only for names
\* in previous alone, updated only for names in both.
C4_OneChangePerName ==
    pc = "detected" =>
        /\ \A i, j \in DOMAIN changes :
              changes[i].filename = changes[j].filename => i = j
        /\ \A i \in DOMAIN changes :
              LET name == changes[i].filename
                  inPrev == has(previous_mods, name)
                  inCur == has(current_mods, name)
              IN  /\ changes[i].type \in {"added", "removed", "updated"}
                  /\ changes[i].type = "added" => (inCur /\ ~inPrev)
                  /\ changes[i].type = "removed" => (inPrev /\ ~inCur)
                  /\ changes[i].type = "updated" => (inPrev /\ inCur)

\* C4's case: one diff with an added, an updated and a removed change.
C4_Witness ==
    /\ pc = "detected"
    /\ OfType(changes, "added") # {}
    /\ OfType(changes, "updated") # {}
    /\ OfType(changes, "removed") # {}

\* C5: the added and updated changes come first, in the order of
\* current_mods; the removed changes follow, in the order of previous_mods.
C5_Order ==
    pc = "detected" =>
        \A i, j \in DOMAIN changes : i < j =>
            /\ changes[i].type = "removed" => changes[j].type = "removed"
            /\ (changes[i].type # "removed" /\ changes[j].type # "removed") =>
                  index(current_mods, changes[i].filename)
                      < index(current_mods, changes[j].filename)
            /\ changes[i].type = "removed" =>
                  index(previous_mods, changes[i].filename)
                      < index(previous_mods, changes[j].filename)

\* C5's case: two changes from current_mods followed by two removals.
C5_Witness ==
    /\ pc = "detected"
    /\ Len(changes) >= 3
    /\ changes[1].type = "updated"
    /\ changes[2].type = "added"
    /\ changes[Len(changes)].type = "removed"

\* C6: an added or updated change carries current[name], an updated change
\* also previous[name].version as old_version, a removed change carries
\* previous[name].
C6_RecordsCarried ==
    pc = "detected" =>
        \A i \in DOMAIN changes :
            LET c == changes[i]
            IN  /\ c.type \in {"added", "updated"} =>
                      c.info = get(current_mods, c.filename)
                /\ c.type = "updated" =>
                      /\ "old_version" \in DOMAIN c
                      /\ c.old_version = get(previous_mods, c.filename).version
                /\ c.type = "removed" =>
                      c.info = get(previous_mods, c.filename)

\* C6's case: an update to another version, next to a removal.
C6_Witness ==
    /\ pc = "detected"
    /\ \E i \in OfType(changes, "updated") :
          changes[i].old_version # changes[i].info.version
    /\ OfType(changes, "removed") # {}

\* ------------------------------------------------------------- main()

\* The archives a file of the polled server holds.
MainArchives == {ModV1, ModV1Reupload, ModV2}

\* The directory listings of the polled server: the archive behind a name
\* that is no zip is never looked at.
MainListings ==
    {l \in Listings :
        \A i \in DOMAIN l :
            IF endswith_zip(lower(l[i].filename))
            THEN l[i].archive \in MainArchives
            ELSE l[i].archive = NotAZip}

\* A state file that is JSON, with a record that lacks fields.
IncompleteSnapshot ==
    File(JsonText(<< <<"ModA.zip", << <<"title", JString("A")>> >> >> >>))

\* What STATE_FILE may hold before the first run: nothing, text that is not
\* JSON, JSON of another shape, or the snapshot of an earlier run.
InitialFiles ==
    {NoFile, File(GarbageText), File(EmptyText), IncompleteSnapshot,
     save_current_state(<< <<"ModA.zip", extract_mod_info(TRUE, ModV1, "ModA.zip", 1000)>> >>)}

\* The fields send_discord_notification and detect_changes read.
InfoFields == {"title", "version", "author", "filesize"}

\* Whether detect_changes raises KeyError: a file of both inventories whose
\* previous record has no version, or the same version and no filesize.
detect_changes_raises(prev, cur) ==
    \E i \in DOMAIN cur :
        /\ has(prev, cur[i][1])
        /\ LET old == get(prev, cur[i][1])
           IN  \/ "version" \notin DOMAIN old
               \/ /\ cur[i][2].version = old.version
                  /\ "filesize" \notin DOMAIN old

RECURSIVE total_size(_, _)
\* sum(mod['filesize'] for mod in current_mods.values()), from item i on
total_size(mods, i) ==
    IF i > Len(mods) THEN 0 ELSE mods[i][2].filesize + total_size(mods, i + 1)

\* Whether send_discord_notification raises KeyError while it builds the
\* embed: a change whose record lacks a field.
notification_raises(cs) ==
    \E i \in DOMAIN cs : ~(InfoFields \subseteq DOMAIN cs[i].info)

\* a / d rounded to the nearest integer, a tie to the even one: what the
\* format spec .2f does to the hundredths of a float that is exact.
round_half_even(a, d) ==
    LET q == a \div d
        r == a % d
    IN  IF 2 * r > d \/ (2 * r = d /\ q % 2 = 1) THEN q + 1 ELSE q

\* format_file_size(size_bytes): the number in hundredths and the unit.
format_file_size(size_bytes) ==
    IF size_bytes < 1024
    THEN [hundredths |-> 100 * size_bytes, unit |-> "B"]
    ELSE IF size_bytes < 1024 * 1024
    THEN [hundredths |-> round_half_even(100 * size_bytes, 1024), unit |-> "KB"]
    ELSE IF size_bytes < 1024 * 1024 * 1024
    THEN [hundredths |-> round_half_even(100 * size_bytes, 1024 * 1024),
          unit |-> "MB"]
    ELSE IF size_bytes < 1024 * 1024 * 1024 * 1024
    THEN [hundredths |-> round_half_even(100 * size_bytes, 1024 * 1024 * 1024),
          unit |-> "GB"]
    ELSE [hundredths |-> round_half_even(100 * size_bytes,
                                         1024 * 1024 * 1024 * 1024),
          unit |-> "TB"]

\* The field of the embed for one change.
change_field(c) ==
    [label |-> CASE c.type = "added" -> "[ADDED]"
                 [] c.type = "removed" -> "[REMOVED]"
                 [] OTHER -> "[UPDATED]",
     filename |-> c.filename,
     title |-> c.info.title,
     version |-> c.info.version,
     was |-> IF c.type = "updated" /\ "old_version" \in DOMAIN c
             THEN c.old_version ELSE Absent,
     author |-> c.info.author,
     size |-> format_file_size(c.info.filesize)]

\* The field added after the loop.
summary_field(mods) ==
    [label |-> "Current Server Status",
     total_mods |-> Len(mods),
     total_size |-> format_file_size(total_size(mods, 1))]

\* A bug: the summary comes first.
embed_summary_first(cs, mods) ==
    [color |-> IF \E i \in DOMAIN cs : cs[i].type = "added"
               THEN "0x00FF00" ELSE "0xFF9900",
     fields |-> <<summary_field(mods)>> \o [i \in DOMAIN cs |-> change_field(cs[i])]]

\* The embed send_discord_notification posts: the color and the fields, one
\* per change and then the summary.
embed(cs, mods) ==
    [color |-> IF \E i \in DOMAIN cs : cs[i].type = "added"
               THEN "0x00FF00" ELSE "0xFF9900",
     fields |-> [i \in DOMAIN cs |-> change_field(cs[i])] \o <<summary_field(mods)>>]

\* What requests.post does: status 204, another status, or an exception.
PostOutcomes == {"204", "429", "exception"}

Init ==
    /\ pc = "main"
    /\ run = 1
    /\ remote \in MainListings
    /\ conn_type = None
    /\ scan = [listed |-> FALSE, failing |-> {}]
    /\ state_file \in InitialFiles
    /\ file_at_start = state_file
    /\ current_mods = <<>>
    /\ previous_mods = <<>>
    /\ changes = <<>>
    /\ posted = <<>>
    /\ log = <<>>
    /\ last = NoLast
    /\ parsed = NotParsed

\* connect_server() returns (None, None) and main returns.
ConnectFail ==
    /\ pc = "main"
    /\ pc' = "returned"
    /\ UNCHANGED <<run, remote, conn_type, scan, state_file, file_at_start,
                   current_mods, previous_mods, changes, posted>>
    /\ UNCHANGED <<log, last, parsed>>

\* connect_server() returns a client.
Connect ==
    /\ pc = "main"
    /\ \E ctype \in {"sftp", "ftp"} : conn_type' = ctype
    /\ pc' = "get_current_mods"
    /\ UNCHANGED <<run, remote, scan, state_file, file_at_start,
                   current_mods, previous_mods, changes, posted>>
    /\ UNCHANGED <<log, last, parsed>>

\* current_mods = get_current_mods(client, conn_type): the listing fails, or
\* it succeeds and the fetch of some of the zip files fails.
GetCurrentMods ==
    /\ pc = "get_current_mods"
    /\ \E listed \in BOOLEAN :
       \E failing \in SUBSET {remote[i].filename : i \in DOMAIN remote} :
          /\ ~listed => failing = {}
          /\ \A f \in failing : endswith_zip(lower(f))
          /\ scan' = [listed |-> listed, failing |-> failing]
          /\ current_mods' = get_current_mods(conn_type, listed, remote, failing)
    /\ pc' = "load_previous_state"
    /\ UNCHANGED <<run, remote, conn_type, state_file, file_at_start,
                   previous_mods, changes, posted>>
    /\ UNCHANGED <<log, last, parsed>>

\* previous_mods = load_previous_state()
LoadPreviousState ==
    /\ pc = "load_previous_state"
    /\ previous_mods' = load_previous_state(state_file)
    /\ pc' = "detect_changes"
    /\ UNCHANGED <<run, remote, conn_type, scan, state_file, file_at_start,
                   current_mods, changes, posted>>
    /\ log' = Append(log, "load_previous_state")
    /\ UNCHANGED <<last, parsed>>

\* A bug: the snapshot is saved as soon as the diff is known, and again at
\* the end.
DetectChanges_saves_first ==
    /\ pc = "detect_changes"
    /\ IF detect_changes_raises(previous_mods, current_mods)
       THEN /\ pc' = "failed"
            /\ UNCHANGED <<changes, log, state_file>>
       ELSE /\ changes' = detect_changes(previous_mods, current_mods)
            /\ state_file' = save_current_state(current_mods)
            /\ log' = log \o <<"detect_changes", "open", "json.dump">>
            /\ pc' = IF changes' # <<>> THEN "send_discord_notification"
                     ELSE "save_current_state"
    /\ UNCHANGED <<run, remote, conn_type, scan, file_at_start,
                   current_mods, previous_mods, posted>>
    /\ UNCHANGED <<last, parsed>>

\* changes = detect_changes(previous_mods, current_mods) and the if that
\* follows; an exception leaves main through the finally block.
DetectChanges ==
    /\ pc = "detect_changes"
    /\ IF detect_changes_raises(previous_mods, current_mods)
       THEN /\ pc' = "failed"
            /\ UNCHANGED <<changes, log>>
       ELSE /\ changes' = detect_changes(previous_mods, current_mods)
            /\ log' = Append(log, "detect_changes")
            /\ pc' = IF changes' # <<>> THEN "send_discord_notification"
                     ELSE "save_current_state"
    /\ UNCHANGED <<run, remote, conn_type, scan, state_file, file_at_start,
                   current_mods, previous_mods, posted>>
    /\ UNCHANGED <<last, parsed>>

\* A bug: the embed is posted whether or not there are changes.
SendDiscordNotification_no_guard ==
    /\ pc = "send_discord_notification"
    /\ IF notification_raises(changes)
       THEN /\ pc' = "failed"
            /\ UNCHANGED <<posted, log>>
       ELSE \E outcome \in PostOutcomes :
               /\ log' = Append(log, "requests.post")
               /\ posted' = Append(posted, [payload |-> embed(changes, current_mods),
                                            outcome |-> outcome])
               /\ pc' = "save_current_state"
    /\ UNCHANGED <<run, remote, conn_type, scan, state_file, file_at_start,
                   current_mods, previous_mods, changes>>
    /\ UNCHANGED <<last, parsed>>

\* A bug: an exception of requests.post is not caught.
SendDiscordNotification_uncaught ==
    /\ pc = "send_discord_notification"
    /\ IF changes = <<>>
       THEN /\ pc' = "save_current_state"                  \* if not changes: return
            /\ UNCHANGED <<posted, log>>
       ELSE IF notification_raises(changes)
       THEN /\ pc' = "failed"
            /\ UNCHANGED <<posted, log>>
       ELSE \E outcome \in PostOutcomes :
               /\ log' = Append(log, "requests.post")
               /\ posted' = Append(posted, [payload |-> embed(changes, current_mods),
                                            outcome |-> outcome])
               /\ pc' = IF outcome = "exception" THEN "failed"
                        ELSE "save_current_state"
    /\ UNCHANGED <<run, remote, conn_type, scan, state_file, file_at_start,
                   current_mods, previous_mods, changes>>
    /\ UNCHANGED <<last, parsed>>

\* send_discord_notification(changes, current_mods) with changes non-empty:
\* the embed is built and posted; the outcome of the post is only printed.
SendDiscordNotification ==
    /\ pc = "send_discord_notification"
    /\ IF changes = <<>>
       THEN /\ pc' = "save_current_state"                  \* if not changes: return
            /\ UNCHANGED <<posted, log>>
       ELSE IF notification_raises(changes)
       THEN /\ pc' = "failed"
            /\ UNCHANGED <<posted, log>>
       ELSE \E outcome \in PostOutcomes :
               /\ log' = Append(log, "requests.post")
               /\ posted' = Append(posted, [payload |-> embed(changes, current_mods),
                                            outcome |-> outcome])
               /\ pc' = "save_current_state"
    /\ UNCHANGED <<run, remote, conn_type, scan, state_file, file_at_start,
                   current_mods, previous_mods, changes>>
    /\ UNCHANGED <<last, parsed>>

\* save_current_state: open(STATE_FILE, 'w') truncates the file.
SaveOpen ==
    /\ pc = "save_current_state"
    /\ state_file' = opened_for_write(state_file)
    /\ pc' = "json_dump"
    /\ UNCHANGED <<run, remote, conn_type, scan, file_at_start,
                   current_mods, previous_mods, changes, posted>>
    /\ log' = Append(log, "open")
    /\ UNCHANGED <<last, parsed>>

\* save_current_state: json.dump(mods, f), the file is closed, and main
\* ends through its finally block.
SaveWrite ==
    /\ pc = "json_dump"
    /\ state_file' = save_current_state(current_mods)
    /\ pc' = "done"
    /\ UNCHANGED <<run, remote, conn_type, scan, file_at_start,
                   current_mods, previous_mods, changes, posted>>
    /\ log' = Append(log, "json.dump")
    /\ UNCHANGED <<last, parsed>>

\* The run is over, however it ended.
Ended == pc \in {"returned", "failed", "done"}

\* main() has returned or raised: the process exits and its locals are gone.
Exit ==
    /\ Ended
    /\ run >= 1
    /\ pc' = "exited"
    /\ conn_type' = None
    /\ scan' = [listed |-> FALSE, failing |-> {}]
    /\ file_at_start' = state_file
    /\ current_mods' = <<>>
    /\ previous_mods' = <<>>
    /\ changes' = <<>>
    /\ posted' = <<>>
    /\ UNCHANGED <<run, remote, state_file>>
    /\ log' = <<>>
    /\ UNCHANGED <<last, parsed>>

\* The server's directory changes and main() is invoked again.
NextRun ==
    /\ pc = "exited"
    /\ run < MaxRuns
    /\ run' = run + 1
    /\ remote' \in MainListings
    /\ pc' = "main"
    /\ UNCHANGED <<conn_type, scan, state_file, file_at_start,
                   current_mods, previous_mods, changes, posted>>
    /\ UNCHANGED <<log, last, parsed>>

Next ==
    \/ ConnectFail
    \/ Connect
    \/ GetCurrentMods
    \/ LoadPreviousState
    \/ DetectChanges
    \/ SendDiscordNotification
    \/ SaveOpen
    \/ SaveWrite
    \/ Exit
    \/ NextRun

Spec == Init /\ [][Next]_vars

\* C7: a run in which the transport cannot connect or the directory cannot
\* be listed posts no notification and leaves the snapshot as it was: the
\* next load_previous_state returns what it returned before the run.
C7_TransportFailureKeepsSnapshot ==
    (Ended /\ (conn_type = None \/ ~scan.listed)) =>
        /\ posted = <<>>
        /\ load_previous_state(state_file) = load_previous_state(file_at_start)

\* Whether the text of a state file is a mapping from names to records with
\* the four fields.
WellFormedSnapshot(file) ==
    /\ file.exists
    /\ file.text.kind = "json"
    /\ \A i \in DOMAIN file.text.members :
          {file.text.members[i][2][j][1] : j \in DOMAIN file.text.members[i][2]}
              = InfoFields

\* C9: with STATE_FILE missing or malformed, load_previous_state returned an
\* empty inventory and the run did not fail: it ends with the current
\* inventory saved.
C9_BadSnapshotNeverFatal ==
    (Ended /\ conn_type # None /\ ~WellFormedSnapshot(file_at_start)) =>
        /\ previous_mods = <<>>
        /\ pc = "done"
        /\ state_file = save_current_state(current_mods)

\* C10: once a post has failed (another status than 204, or an exception),
\* the run goes on to save_current_state and ends with STATE_FILE holding
\* the inventory scanned in this run.
C10_DeliveryFailureStillSaves ==
    (posted # <<>> /\ posted[Len(posted)].outcome # "204") =>
        /\ pc \in {"save_current_state", "json_dump", "done"}
        /\ pc = "done" => state_file = File(JsonText(json_dump(current_mods)))

\* C10's case: the post raised, the run is done, and the snapshot was
\* replaced by the inventory of this run.
C10_Witness ==
    /\ pc = "done"
    /\ posted # <<>>
    /\ posted[1].outcome = "exception"
    /\ state_file # file_at_start
    /\ load_previous_state(state_file) = current_mods
    /\ current_mods # <<>>

\* ----------------------------------------- the state file on its own

\* The directory listings whose inventories are saved and loaded again.
StoreListings ==
    {l \in Listings :
        \A i \in DOMAIN l :
            endswith_zip(lower(l[i].filename)) \/ l[i].archive = NotAZip}

InitStore ==
    /\ pc = "scan"
    /\ run = 0
    /\ remote \in StoreListings
    /\ conn_type \in {"sftp", "ftp"}
    /\ scan = [listed |-> FALSE, failing |-> {}]
    /\ state_file \in InitialFiles
    /\ file_at_start = state_file
    /\ current_mods = <<>>
    /\ previous_mods = <<>>
    /\ changes = <<>>
    /\ posted = <<>>
    /\ log = <<>>
    /\ last = NoLast
    /\ parsed = NotParsed

\* An inventory is scanned, to be saved.
StoreScan ==
    /\ pc = "scan"
    /\ \E failing \in SUBSET {remote[i].filename : i \in DOMAIN remote} :
          /\ \A f \in failing : endswith_zip(lower(f))
          /\ scan' = [listed |-> TRUE, failing |-> failing]
          /\ current_mods' = get_current_mods(conn_type, TRUE, remote, failing)
    /\ pc' = "save_current_state"
    /\ UNCHANGED <<run, remote, conn_type, state_file, file_at_start,
                   previous_mods, changes, posted>>
    /\ UNCHANGED <<log, last, parsed>>

\* load_previous_state() after the save.
StoreLoad ==
    /\ pc = "done"
    /\ previous_mods' = load_previous_state(state_file)
    /\ pc' = "loaded"
    /\ UNCHANGED <<run, remote, conn_type, scan, state_file, file_at_start,
                   current_mods, changes, posted>>
    /\ log' = Append(log, "load_previous_state")
    /\ UNCHANGED <<last, parsed>>

NextStore == StoreScan \/ SaveOpen \/ SaveWrite \/ StoreLoad

SpecStore == InitStore /\ [][NextStore]_vars

\* C8: save_current_state(I) followed by load_previous_state() returns I:
\* the same keys in the same order, and for each key the same title,
\* version, author and filesize.
C8_SaveLoadRoundTrip ==
    pc = "loaded" =>
        /\ keys(previous_mods) = keys(current_mods)
        /\ \A k \in keys(current_mods) :
              /\ DOMAIN get(previous_mods, k) = InfoFields
              /\ \A f \in InfoFields :
                    get(previous_mods, k)[f] = get(current_mods, k)[f]
        /\ previous_mods = current_mods

\* C8's case: an inventory with a fallback record ("Unknown") and a record
\* without author text went through the file.
C8_Witness ==
    /\ pc = "loaded"
    /\ Len(current_mods) = 2
    /\ \E k \in keys(previous_mods) : get(previous_mods, k).version = "Unknown"
    /\ \E k \in keys(previous_mods) : get(previous_mods, k).author = None
    /\ file_at_start # state_file

\* ------------------------------------------------ the order of a run

\* C11: a run that completes has called load_previous_state once, before
\* the diff, and has written STATE_FILE once, after the diff and after the
\* post when there was one; what it wrote is the inventory it scanned.
C11_ReadOnceWriteOnce ==
    pc = "done" =>
        /\ log = IF posted = <<>>
                 THEN <<"load_previous_state", "detect_changes", "open", "json.dump">>
                 ELSE <<"load_previous_state", "detect_changes", "requests.post",
                        "open", "json.dump">>
        /\ Len(posted) <= 1
        /\ state_file = File(JsonText(json_dump(current_mods)))
        /\ current_mods = get_current_mods(conn_type, scan.listed, remote, scan.failing)

\* C11's case: a second run that posted a notification and replaced the
\* snapshot of the first.
C11_Witness ==
    /\ pc = "done"
    /\ run = 2
    /\ posted # <<>>
    /\ current_mods # <<>>
    /\ file_at_start.exists
    /\ state_file # file_at_start

\* ---------------------------------------- interrupted runs of main()

\* Where the process can be killed in the middle of main().
CrashPoints ==
    {"get_current_mods", "load_previous_state", "detect_changes",
     "send_discord_notification", "save_current_state", "json_dump"}

\* The process is killed.  Inside the with block of save_current_state the
\* file has been truncated by open(STATE_FILE, 'w'), and holds nothing or a
\* prefix of the JSON text.
Crash ==
    /\ pc \in CrashPoints
    /\ pc' = "crashed"
    /\ IF pc = "json_dump"
       THEN state_file' \in {opened_for_write(state_file), File(GarbageText)}
       ELSE UNCHANGED state_file
    /\ UNCHANGED <<run, remote, conn_type, scan, file_at_start,
                   current_mods, previous_mods, changes, posted, log>>
    /\ UNCHANGED <<last, parsed>>

\* main() is invoked again while the server's directory is what it was; last
\* keeps what the run before did.
Rerun ==
    /\ Ended \/ pc = "crashed"
    /\ run < MaxRuns
    /\ run' = run + 1
    /\ last' = [how |-> pc, log |-> log, conn_type |-> conn_type, scan |-> scan,
                file |-> file_at_start,
                before |-> load_previous_state(file_at_start),
                saving |-> current_mods, changes |-> changes]
    /\ pc' = "main"
    /\ conn_type' = None
    /\ scan' = [listed |-> FALSE, failing |-> {}]
    /\ file_at_start' = state_file
    /\ current_mods' = <<>>
    /\ previous_mods' = <<>>
    /\ changes' = <<>>
    /\ posted' = <<>>
    /\ log' = <<>>
    /\ UNCHANGED <<remote, state_file, parsed>>

NextRerun ==
    \/ ConnectFail
    \/ Connect
    \/ GetCurrentMods
    \/ LoadPreviousState
    \/ DetectChanges
    \/ SendDiscordNotification
    \/ SaveOpen
    \/ SaveWrite
    \/ Crash
    \/ Rerun

SpecRerun == Init /\ [][NextRerun]_vars

\* Whether entry e occurs in sequence q.
InLog(q, e) == \E i \in DOMAIN q : q[i] = e

\* The run before stopped after its diff and before its save began.
StoppedBetweenDiffAndSave ==
    /\ last.how \in {"crashed", "failed"}
    /\ InLog(last.log, "detect_changes")
    /\ ~InLog(last.log, "open")

\* C12: when a run that listed and fetched the directory stops after its
\* diff and before its save, the snapshot is what it was when that run
\* began, and the next completed run over the same directory detects every
\* change that run had detected.
C12_InterruptedRunRedetected ==
    (/\ pc = "done"
     /\ run >= 2
     /\ StoppedBetweenDiffAndSave
     /\ last.scan.listed
     /\ last.scan.failing = {}
     /\ last.conn_type = conn_type)
    => /\ file_at_start = last.file
       /\ \A i \in DOMAIN last.changes :
             \E j \in DOMAIN changes :
                /\ changes[j].type = last.changes[i].type
                /\ changes[j].filename = last.changes[i].filename

\* C13: after a save that was interrupted, the next load_previous_state
\* returns the inventory stored before the save or the inventory being
\* saved.
C13_SaveIsAtomic ==
    (/\ run >= 2
     /\ last.how = "crashed"
     /\ InLog(last.log, "open")
     /\ InLog(log, "load_previous_state"))
    => \/ previous_mods = last.before
       \/ previous_mods = last.saving

\* C19: of two consecutive completed runs over the same directory, both with
\* a listing and over the same transport, the second emits no change and
\* sends no notification, whichever fetches failed.
C19_FetchFailureIsSilent ==
    (/\ pc = "done"
     /\ run >= 2
     /\ last.how = "done"
     /\ last.scan.listed
     /\ scan.listed
     /\ last.conn_type = conn_type)
    => /\ changes = <<>>
       /\ posted = <<>>

\* -------------------------------- send_discord_notification on its own

\* The records of the inventories a notification is built from.
NotifyRecords ==
    {[title |-> "A", version |-> "1.0", author |-> "X", filesize |-> 1000],
     [title |-> "A", version |-> "1.1", author |-> "X", filesize |-> 1200],
     [title |-> "B", version |-> "1.0", author |-> "Y", filesize |-> 2000000]}

NotifyInventories == DictsOver(DiffNames, NotifyRecords, MaxMods)

\* Either main is about to compute the diff, or send_discord_notification
\* is called with the change list of two inventories, which may be empty.
InitNotify ==
    /\ Idle
    /\ state_file = NoFile
    /\ previous_mods \in NotifyInventories
    /\ current_mods \in NotifyInventories
    /\ \/ /\ pc = "detect_changes"
          /\ changes = <<>>
       \/ /\ pc = "send_discord_notification"
          /\ changes = detect_changes(previous_mods, current_mods)

NextNotify ==
    \/ DetectChanges
    \/ SendDiscordNotification
    \/ SaveOpen
    \/ SaveWrite

SpecNotify == InitNotify /\ [][NextNotify]_vars

\* C14: with an empty change list nothing is posted and the notification
\* step returns normally; so nothing is ever posted without a change.
C14_NoChangesNoPost ==
    changes = <<>> =>
        /\ posted = <<>>
        /\ ~InLog(log, "requests.post")
        /\ pc # "failed"

\* C14's case: send_discord_notification was called with an empty list and
\* has returned.
C14_Witness ==
    /\ pc = "save_current_state"
    /\ log = <<>>
    /\ changes = <<>>
    /\ current_mods # <<>>
    /\ posted = <<>>

RECURSIVE SumOfSizes(_, _)
\* The sum of the filesize of the files S of an inventory.
SumOfSizes(mods, S) ==
    IF S = {} THEN 0
    ELSE LET f == CHOOSE x \in S : TRUE
         IN  get(mods, f).filesize + SumOfSizes(mods, S \ {f})

\* The label of a kind of change.
LabelOf(type) ==
    IF type = "added" THEN "[ADDED]"
    ELSE IF type = "removed" THEN "[REMOVED]"
    ELSE "[UPDATED]"

\* C18: a posted embed has one field per change, in the order of the
\* changes and labelled by kind, and then one summary field with the number
\* of entries and the total size of the current inventory; its color is
\* green exactly when a change is an addition.
C18_EmbedShape ==
    \A p \in DOMAIN posted :
        LET e == posted[p].payload
            n == Len(changes)
        IN  /\ n >= 1
            /\ Len(e.fields) = n + 1
            /\ \A i \in 1..n :
                  /\ e.fields[i].label = LabelOf(changes[i].type)
                  /\ e.fields[i].filename = changes[i].filename
            /\ e.fields[n + 1].label = "Current Server Status"
            /\ e.fields[n + 1].total_mods = Cardinality(keys(current_mods))
            /\ e.fields[n + 1].total_size =
                  format_file_size(SumOfSizes(current_mods, keys(current_mods)))
            /\ (e.color = "0x00FF00") <=> (OfType(changes, "added") # {})

\* C18's case: an embed for an addition and a removal, with two files on
\* the server, whose total size is shown in another unit than theirs.
C18_Witness ==
    /\ posted # <<>>
    /\ OfType(changes, "added") # {}
    /\ OfType(changes, "removed") # {}
    /\ Len(current_mods) = 2
    /\ posted[1].payload.fields[Len(changes) + 1].total_size.unit = "KB"

\* -------------------------------------- extract_mod_info on its own

\* An archive with two entries named like the descriptor: the first is not
\* XML, the second is.
TwoDescriptors ==
    [is_zip |-> TRUE, size |-> 1000,
     descs |-> <<BadXml.descs[1], Desc("A", None, "1.0", "X", "1.0.0.0")>>]

ExtractArchives == ArchivePool \cup {TwoDescriptors}

\* parse_mod(zip_path) of test_mod_parser.py on a local copy of the archive:
\* the fields print_result shows, or the error.
parse_mod(archive) ==
    IF ~archive.is_zip
    THEN [error |-> "Invalid zip file", title |-> Absent, version |-> Absent,
          author |-> Absent]
    ELSE IF archive.descs = <<>>
    THEN [error |-> "modDesc.xml not found in zip", title |-> Absent,
          version |-> Absent, author |-> Absent]
    ELSE LET root == archive.descs[1]
         IN  IF ~root.parseable
             THEN [error |-> "XML parsing error", title |-> Absent,
                   version |-> Absent, author |-> Absent]
             ELSE [error |-> Absent,
                   title |-> IF root.title_en # Absent THEN root.title_en
                             ELSE IF root.title # Absent THEN root.title
                             ELSE "Unknown",
                   version |-> IF root.version # Absent THEN root.version
                               ELSE "Unknown",
                   author |-> IF root.author # Absent THEN root.author
                              ELSE "Unknown"]

\* One file of the server, the transport, and whether its fetch fails.
InitExtract ==
    /\ pc = "extract_mod_info"
    /\ run = 0
    /\ \E f \in FileNames, a \in ExtractArchives : remote = <<Entry(f, a)>>
    /\ conn_type \in {"sftp", "ftp"}
    /\ \E failing \in SUBSET {remote[1].filename} :
          scan = [listed |-> TRUE, failing |-> failing]
    /\ state_file = NoFile
    /\ file_at_start = NoFile
    /\ current_mods = <<>>
    /\ previous_mods = <<>>
    /\ changes = <<>>
    /\ posted = <<>>
    /\ log = <<>>
    /\ last = NoLast
    /\ parsed = NotParsed

\* mod_info = extract_mod_info(client, conn_type, filename, file_size) and
\* current_mods[filename] = mod_info
ExtractModInfo ==
    /\ pc = "extract_mod_info"
    /\ LET e == remote[1]
       IN  current_mods' =
              setitem(current_mods, e.filename,
                      extract_mod_info(e.filename \notin scan.failing, e.archive,
                                       e.filename, listed_size(conn_type, e)))
    /\ pc' = "extracted"
    /\ UNCHANGED <<run, remote, conn_type, scan, state_file, file_at_start,
                   previous_mods, changes, posted, log, last, parsed>>

\* result = parse_mod(zip_path) on a copy of the same archive.
ParseMod ==
    /\ pc = "extracted"
    /\ parsed' = parse_mod(remote[1].archive)
    /\ pc' = "parsed"
    /\ UNCHANGED <<run, remote, conn_type, scan, state_file, file_at_start,
                   current_mods, previous_mods, changes, posted, log, last>>

NextExtract == ExtractModInfo \/ ParseMod

SpecExtract == InitExtract /\ [][NextExtract]_vars

\* The archive could not be fetched or opened, has no descriptor, or its
\* descriptor is not XML.
ExtractionFails ==
    LET e == remote[1]
    IN  \/ e.filename \in scan.failing
        \/ ~e.archive.is_zip
        \/ e.archive.descs = <<>>
        \/ ~e.archive.descs[1].parseable

\* C15: every record extract_mod_info returns has its four fields, none of
\* them null, and the supplied size.
C15_RecordFullyPopulated ==
    pc \in {"extracted", "parsed"} =>
        LET info == current_mods[1][2]
        IN  /\ DOMAIN info = InfoFields
            /\ info.title # None
            /\ info.version # None
            /\ info.author # None
            /\ info.filesize = listed_size(conn_type, remote[1])

\* C17: extract_mod_info returns, with the supplied size; when the archive
\* cannot be read it returns the file name without extension, "Unknown",
\* "Unknown" and the supplied size.
C17_FallbackRecord ==
    pc # "extract_mod_info" =>
        /\ pc \in {"extracted", "parsed"}
        /\ Len(current_mods) = 1
        /\ current_mods[1][2].filesize = listed_size(conn_type, remote[1])
        /\ ExtractionFails =>
              current_mods[1][2] =
                 [title |-> stem(remote[1].filename), version |-> "Unknown",
                  author |-> "Unknown",
                  filesize |-> listed_size(conn_type, remote[1])]

\* C17's case: the first descriptor of a fetched zip is not XML.
C17_Witness ==
    /\ pc = "extracted"
    /\ remote[1].filename \notin scan.failing
    /\ remote[1].archive = TwoDescriptors
    /\ remote[1].filename = "ModB.ZIP"
    /\ conn_type = "ftp"
    /\ current_mods[1][2].title = "ModB"

\* C20: for an archive with a parseable descriptor, parse_mod reports the
\* title, version and author that extract_mod_info returns.
C20_ParserAgreesWithMonitor ==
    (pc = "parsed" /\ ~ExtractionFails) =>
        /\ parsed.error = Absent
        /\ parsed.title = current_mods[1][2].title
        /\ parsed.version = current_mods[1][2].version
        /\ parsed.author = current_mods[1][2].author


\* ------------------------------------------ get_current_mods on its own

\* File names of a directory, one of them with a space.
ScanNames == {"ModA.zip", "My Mod.zip", "Mod.zip", "notes.txt"}

ScanListings ==
    UNION {{l \in [1..k -> {Entry(f, a) : f \in ScanNames, a \in {ModV1, BadXml}}] :
              \A i, j \in 1..k : i # j => l[i].filename # l[j].filename}
           : k \in 0..MaxListing}

InitScan ==
    /\ pc = "get_current_mods"
    /\ run = 0
    /\ remote \in ScanListings
    /\ conn_type \in {"sftp", "ftp"}
    /\ scan = [listed |-> FALSE, failing |-> {}]
    /\ state_file = NoFile
    /\ file_at_start = NoFile
    /\ current_mods = <<>>
    /\ previous_mods = <<>>
    /\ changes = <<>>
    /\ posted = <<>>
    /\ log = <<>>
    /\ last = NoLast
    /\ parsed = NotParsed

NextScan == GetCurrentMods

SpecScan == InitScan /\ [][NextScan]_vars

\* The listed file names whose lowered form ends in .zip.
ListedZips == {remote[i].filename : i \in {j \in DOMAIN remote :
                                             endswith_zip(lower(remote[j].filename))}}

\* C16: after a listing that succeeded, the keys of the inventory are the
\* listed names that end in .zip, whichever fetches failed.
C16_KeysAreListedZips ==
    (pc = "load_previous_state" /\ scan.listed) =>
        keys(current_mods) = ListedZips

====
